---- MODULE Spec2Model ----
(***************************************************************************)
(* Model of setup.py: add_requirements_to_pyproject, the scaffolding       *)
(* routine (manifest clearing, requirement parsing, `uv add` per           *)
(* requirement, skeleton creation).                                        *)
(*                                                                         *)
(* Text is modelled as sequences of one-character strings so that          *)
(* str.strip, str.startswith and the regular expression are computed       *)
(* character by character.                                                 *)
(***************************************************************************)
EXTENDS Integers, Sequences, FiniteSets, TLC

(***************************************************************************)
(* Bounds                                                                  *)
(***************************************************************************)
MaxLineLen == 3
MaxLines == 2
MaxRuns == 2

(***************************************************************************)
(* Characters                                                              *)
(***************************************************************************)
LF == "\n"
\* characters removed by str.strip()
Whitespace == {" ", LF}
\* [a-zA-Z0-9]
NameStart ==
  {"a", "b", "c", "d", "e", "f", "g", "h", "i", "j", "k", "l", "m", "n", "o",
   "p", "q", "r", "s", "t", "u", "v", "w", "x", "y", "z",
   "A", "B", "C", "D", "E", "F", "G", "H", "I", "J", "K", "L", "M", "N", "O",
   "P", "Q", "R", "S", "T", "U", "V", "W", "X", "Y", "Z",
   "0", "1", "2", "3", "4", "5", "6", "7", "8", "9"}
\* [a-zA-Z0-9._-]
NameChar == NameStart \cup {".", "_", "-"}
\* [=><!~]
OpChar == {"=", ">", "<", "!", "~"}

\* the characters raw lines are enumerated over
Alphabet == {"a", "1", ".", "=", " ", "#", "@"}

(***************************************************************************)
(* String helpers, as Python computes them                                 *)
(***************************************************************************)
\* s[:n]
Take(s, n) == SubSeq(s, 1, n)

\* number of leading whitespace characters of s
RECURSIVE LeadingWs(_)
LeadingWs(s) ==
  IF s = <<>> \/ Head(s) \notin Whitespace THEN 0 ELSE 1 + LeadingWs(Tail(s))

\* number of trailing whitespace characters of s
RECURSIVE TrailingWs(_)
TrailingWs(s) ==
  IF s = <<>> \/ s[Len(s)] \notin Whitespace THEN 0
  ELSE 1 + TrailingWs(Take(s, Len(s) - 1))

\* line.strip()
strip(s) ==
  LET l == LeadingWs(s)
  IN  IF l = Len(s) THEN <<>>
      ELSE SubSeq(s, l + 1, Len(s) - TrailingWs(s))

\* line.startswith('#')
startswith_hash(s) == s # <<>> /\ Head(s) = "#"

\* ------------------------------------------------------------------------
\* package_pattern: a name, [a-zA-Z0-9] then any of [a-zA-Z0-9._-], then an
\* optional constraint, one or more of [=><!~] then anything, then `$`
\* ------------------------------------------------------------------------
\* `$`: position i (1-based index of the next unread character) is the end
\* of the string, or is just before a final newline
AtDollar(s, i) == i = Len(s) + 1 \/ (i = Len(s) /\ s[i] = LF)

\* group 1 can span s[1..g]
Group1Spans(s, g) ==
  /\ g >= 1 /\ g <= Len(s)
  /\ s[1] \in NameStart
  /\ \A j \in 2..g : s[j] \in NameChar

\* group 2 can span s[g+1..e]: one or more operator characters, then any
\* characters but newline
Group2Spans(s, g, e) ==
  /\ e > g /\ e <= Len(s)
  /\ s[g + 1] \in OpChar
  /\ \A j \in (g + 1)..e : s[j] # LF

\* the ends e under which the whole pattern matches with group 1 spanning
\* s[1..g]; e = g stands for group 2 not taking part
MatchEnds(s, g) ==
  {e \in g..Len(s) : AtDollar(s, e + 1) /\ (e = g \/ Group2Spans(s, g, e))}

\* the spans of group 1 under which the whole pattern matches
MatchStarts(s) ==
  {g \in 1..Len(s) : Group1Spans(s, g) /\ MatchEnds(s, g) # {}}

\* the largest element of a non-empty set of numbers
Max(S) == CHOOSE x \in S : \A y \in S : y <= x

\* the pattern without its closing `$`: the match ends where the groups end
package_pattern_match_unanchored(s) ==
  LET G1 == {g \in 1..Len(s) : Group1Spans(s, g)}
  IN  IF G1 = {}
      THEN [matched |-> FALSE, package_name |-> <<>>, version_constraint |-> <<>>]
      ELSE LET g == Max(G1)
               G2 == {e \in (g + 1)..Len(s) : Group2Spans(s, g, e)}
               e == IF G2 = {} THEN g ELSE Max(G2)
           IN  [matched |-> TRUE,
                package_name |-> SubSeq(s, 1, g),
                version_constraint |-> SubSeq(s, g + 1, e)]

\* package_pattern.match(line) with match.groups(); None is <<>>. Both
\* groups are greedy, so the backtracking matcher returns the longest
\* group 1 under which the pattern matches, and for it the longest group 2
package_pattern_match(s) ==
  LET starts == MatchStarts(s)
  IN  IF starts = {}
      THEN [matched |-> FALSE, package_name |-> <<>>, version_constraint |-> <<>>]
      ELSE LET g == Max(starts)
               e == Max(MatchEnds(s, g))
           IN  [matched |-> TRUE,
                package_name |-> SubSeq(s, 1, g),
                version_constraint |-> SubSeq(s, g + 1, e)]

\* the loop body handing only the package name to the installer
ParseLine_name_only(raw) ==
  LET line == strip(raw)
      m == package_pattern_match(line)
  IN  IF line = <<>> \/ startswith_hash(line)
      THEN [kind |-> "skip", package_spec |-> <<>>]
      ELSE IF ~m.matched
      THEN [kind |-> "invalid", package_spec |-> <<>>]
      ELSE [kind |-> "add", package_spec |-> m.package_name]

\* what one iteration of the loop body decides for a raw line, before the
\* installer is called: "skip" (blank or comment), "invalid" (diagnostic,
\* continue) or "add" with the package_spec handed to `uv add`
ParseLine(raw) ==
  LET line == strip(raw)
      m == package_pattern_match(line)
  IN  IF line = <<>> \/ startswith_hash(line)
      THEN [kind |-> "skip", package_spec |-> <<>>]
      ELSE IF ~m.matched
      THEN [kind |-> "invalid", package_spec |-> <<>>]
      ELSE IF m.version_constraint # <<>>
      THEN [kind |-> "add", package_spec |-> m.package_name \o m.version_constraint]
      ELSE [kind |-> "add", package_spec |-> m.package_name]

(***************************************************************************)
(* Exceptions and the except clauses that catch them                       *)
(***************************************************************************)
\* the base class of each exception class the routine can meet
BaseOf(cls) ==
  CASE cls = "FileNotFoundError" -> "OSError"
    [] cls = "PermissionError" -> "OSError"
    [] cls = "FileExistsError" -> "OSError"
    [] cls = "OSError" -> "Exception"
    [] cls = "TomlDecodeError" -> "ValueError"
    [] cls = "UnicodeDecodeError" -> "ValueError"
    [] cls = "ValueError" -> "Exception"
    [] cls = "AttributeError" -> "Exception"
    [] cls = "CalledProcessError" -> "Exception"
    [] cls = "Exception" -> "BaseException"
    [] OTHER -> "object"

\* isinstance(exc, cls)
RECURSIVE IsInstance(_, _)
IsInstance(exc, cls) ==
  IF exc = cls THEN TRUE
  ELSE IF exc \in {"BaseException", "object"} THEN FALSE
  ELSE IsInstance(BaseOf(exc), cls)

\* the except clauses around Block 1 (lines 110-112)
Block1Clauses == <<"Exception">>
\* the except clause around subprocess.run (lines 159-161)
InstallClauses == <<"CalledProcessError">>
\* the except clause around Block 5 (lines 495-497)
SkeletonClauses == <<"Exception">>
\* the outer try without its generic clause
OuterClauses_only_missing_file == <<"FileNotFoundError">>

\* the except clauses of the outer try of Blocks 2-5 (lines 503-508)
OuterClauses == <<"FileNotFoundError", "Exception">>

\* some clause of the list catches exc
Caught(clauses, exc) == \E i \in 1..Len(clauses) : IsInstance(exc, clauses[i])

\* the except clauses reporting the error and returning True
Outcome_reports_success(chain, exc) ==
  IF \E i \in 1..Len(chain) : Caught(chain[i], exc) THEN "True" ELSE "raised"

\* what the routine ends with when exc is raised inside the nested try
\* statements `chain` (innermost first): every clause returns False, an
\* exception no clause catches leaves the routine
Outcome(chain, exc) ==
  IF \E i \in 1..Len(chain) : Caught(chain[i], exc) THEN "False" ELSE "raised"

(***************************************************************************)
(* The manifest, pyproject.toml                                            *)
(***************************************************************************)
\* dict.setdefault(k, v), the dict after the call
setdefault(d, k, v) == IF k \in DOMAIN d THEN d ELSE d @@ (k :> v)

\* the dict of line 101
DefaultManifest ==
  [project |-> [name |-> "my-project", version |-> "0.1.0", dependencies |-> <<>>]]

\* pyproject.toml as it lies on disk: kind is "absent", "unreadable" (open
\* raises PermissionError), "malformed" (not TOML), "project_not_table"
\* (TOML whose `project` key holds a scalar) or "toml"; doc is the document
\* the text encodes, comments tells whether the text carries comments
ManifestFile(kind, doc, comments) == [kind |-> kind, doc |-> doc, comments |-> comments]

\* open("pyproject.toml") and toml.load(f): the exception raised or "none",
\* and the dict loaded; comments are not part of the loaded dict
toml_load(file) ==
  CASE file.kind = "absent" -> [exc |-> "FileNotFoundError", pyproject |-> <<>>]
    [] file.kind = "unreadable" -> [exc |-> "PermissionError", pyproject |-> <<>>]
    [] file.kind = "malformed" -> [exc |-> "TomlDecodeError", pyproject |-> <<>>]
    [] OTHER -> [exc |-> "none", pyproject |-> file.doc]

\* toml.dump(pyproject, f): the text written encodes the dict, without
\* comments
toml_dump(pyproject) == ManifestFile("toml", pyproject, FALSE)

\* line 104 without line 105: the list is created when missing, never emptied
ClearDependencies_keep(pyproject) ==
  LET withProject == setdefault(pyproject, "project", <<>>)
  IN  [withProject EXCEPT
         !.project = setdefault(withProject.project, "dependencies", <<>>)]

\* the project table replaced by one that holds only the empty list
ClearDependencies_reset(pyproject) ==
  [k \in DOMAIN pyproject \cup {"project"} |->
     IF k = "project" THEN [dependencies |-> <<>>] ELSE pyproject[k]]

\* lines 104-105 on a dict whose `project` is a table or is missing
ClearDependencies(pyproject) ==
  LET withProject == setdefault(pyproject, "project", <<>>)
      project == setdefault(withProject.project, "dependencies", <<>>)
  IN  [withProject EXCEPT !.project = [project EXCEPT !.dependencies = <<>>]]

\* what `uv add spec` does to the manifest when it succeeds: it appends the
\* requirement to [project.dependencies]
uv_add(file, spec) ==
  [file EXCEPT !.doc.project.dependencies = Append(@, spec)]

(***************************************************************************)
(* The requirements file                                                   *)
(***************************************************************************)
numpy == <<"n", "u", "m", "p", "y">>
pandas123 == <<"p", "a", "n", "d", "a", "s", "=", "=", "1", ".", "2", ".", "3">>
hashcomment == <<"#", " ", "c", "o", "m", "m", "e", "n", "t">>
onlyversion == <<"=", "=", "1">>

\* raw lines as readlines() returns them
LinePool ==
  { numpy \o <<LF>>, <<" ">> \o pandas123 \o <<LF>>, hashcomment \o <<LF>>,
    onlyversion \o <<LF>> }

\* numpy\n# comment\n\npandas==1.2.3
ExampleFile == << numpy \o <<LF>>, hashcomment \o <<LF>>, <<LF>>, pandas123 >>

\* all sequences over S of length at most n
SeqsUpTo(S, n) == UNION {[1..k -> S] : k \in 0..n}

ReqFiles == SeqsUpTo(LinePool, MaxLines) \cup {ExampleFile}

(***************************************************************************)
(* The skeleton descriptor                                                 *)
(***************************************************************************)
\* os.path.join(dir, name); a path is the sequence of its components under
\* os.getcwd()
join(dir, name) == Append(dir, name)

main_subdirs == <<"Front", "Back">>

\* the descriptor without its last entry
subdirs_without_utils ==
  << [name |-> "components", extra_files |-> <<"StageOne.py", "StageTwo.py", "StageThree.py">>],
     [name |-> "Logging", extra_files |-> <<"logging.py">>],
     [name |-> "Exceptions", extra_files |-> <<"exceptions.py">>],
     [name |-> "Constants", extra_files |-> <<"constants.py">>] >>

subdirs ==
  << [name |-> "components", extra_files |-> <<"StageOne.py", "StageTwo.py", "StageThree.py">>],
     [name |-> "Logging", extra_files |-> <<"logging.py">>],
     [name |-> "Exceptions", extra_files |-> <<"exceptions.py">>],
     [name |-> "Constants", extra_files |-> <<"constants.py">>],
     [name |-> "Utils", extra_files |-> <<"utils.py">>] >>

\* what line 485-490 writes into extra_file of main_subdir
TemplateFor(main_subdir, extra_file) ==
  IF extra_file = "logging.py"
  THEN (IF main_subdir = "Front" THEN "logging_template_front" ELSE "logging_template_back")
  ELSE IF extra_file = "exceptions.py"
  THEN (IF main_subdir = "Front" THEN "exceptions_template_front" ELSE "exceptions_template_back")
  ELSE "empty"

MakeDirs(path) == [op |-> "makedirs", path |-> path, content |-> "dir"]
CreateFile(path, content) == [op |-> "create", path |-> path, content |-> content]

\* lines 179-229
ConfigsSteps ==
  << MakeDirs(<<"configs">>),
     CreateFile(join(<<"configs">>, "configuration.yml"), "config_template") >>

\* lines 233-240
SrcSteps ==
  << MakeDirs(<<"src">>), CreateFile(join(<<"src">>, "__init__.py"), "empty") >>

\* lines 473-490 for one entry of subdirs
SubdirSteps(main_subdir, sd) ==
  LET subdir_path == join(join(<<"src">>, main_subdir), sd.name)
  IN  << MakeDirs(subdir_path), CreateFile(join(subdir_path, "__init__.py"), "empty") >>
      \o [i \in 1..Len(sd.extra_files) |->
            CreateFile(join(subdir_path, sd.extra_files[i]),
                       TemplateFor(main_subdir, sd.extra_files[i]))]

\* the inner loop of lines 472-490 from entry i of subdirs on
RECURSIVE SubdirsFrom(_, _)
SubdirsFrom(main_subdir, i) ==
  IF i > Len(subdirs) THEN <<>>
  ELSE SubdirSteps(main_subdir, subdirs[i]) \o SubdirsFrom(main_subdir, i + 1)

\* lines 463-490 for one of Front, Back
MainSteps(main_subdir) ==
  LET main_subdir_path == join(<<"src">>, main_subdir)
  IN  << MakeDirs(main_subdir_path),
         CreateFile(join(main_subdir_path, "__init__.py"), "empty") >>
      \o SubdirsFrom(main_subdir, 1)

\* Block 5 as the sequence of file-system calls it makes, in program order
Steps ==
  ConfigsSteps \o SrcSteps \o MainSteps(main_subdirs[1]) \o MainSteps(main_subdirs[2])

NSteps == Len(Steps)

Paths == {Steps[i].path : i \in 1..NSteps}
DirPaths == {Steps[i].path : i \in {j \in 1..NSteps : Steps[j].op = "makedirs"}}
FilePaths == Paths \ DirPaths

\* the existence check left out: every file is written
exists_never(tree, path) == FALSE

\* os.path.exists(path)
exists(tree, path) == tree[path] # "absent"

(***************************************************************************)
(* Initial contents of the project directory                               *)
(***************************************************************************)
\* manifests a run can find: every kind of file, and documents with and
\* without the project table and its dependency list
InitialManifests ==
  { ManifestFile("absent", <<>>, FALSE),
    ManifestFile("unreadable", <<>>, FALSE),
    ManifestFile("malformed", <<>>, FALSE),
    ManifestFile("project_not_table", <<>>, FALSE),
    ManifestFile("toml", [tool |-> "black"], FALSE),
    ManifestFile("toml", [project |-> [name |-> "demo", version |-> "1.0"],
                          tool |-> "black"], TRUE),
    ManifestFile("toml", [project |-> [name |-> "demo", version |-> "1.0",
                                       dependencies |-> <<>>],
                          tool |-> "black"], FALSE),
    ManifestFile("toml", [project |-> [name |-> "demo", version |-> "1.0",
                                       dependencies |-> <<numpy, pandas123>>],
                          tool |-> "black"], TRUE) }

RequirementsFile(kind, content) == [kind |-> kind, lines |-> content]

InitialRequirements ==
  { RequirementsFile("absent", <<>>), RequirementsFile("unreadable", <<>>) }
  \cup { RequirementsFile("file", f) : f \in ReqFiles }

\* the tree in which the first k steps of the skeleton have been taken and
\* every file written since edited by hand
PrefixTree(k) ==
  [p \in Paths |->
     IF \E i \in 1..k : Steps[i].path = p
     THEN (IF p \in DirPaths THEN "dir" ELSE "user_edit")
     ELSE "absent"]

\* a regular file lies where the skeleton wants the directory src/Back, and
\* a directory where it wants the file configs/configuration.yml
BlockedTree ==
  [PrefixTree(0) EXCEPT ![<<"configs">>] = "dir",
                        ![<<"configs", "configuration.yml">>] = "dir",
                        ![<<"src">>] = "dir",
                        ![<<"src", "Back">>] = "user_edit"]

\* the step after which src/Front is complete
FrontDone == Len(ConfigsSteps \o SrcSteps \o MainSteps(main_subdirs[1]))

InitialTrees == {PrefixTree(0), PrefixTree(FrontDone), PrefixTree(NSteps), BlockedTree}

(***************************************************************************)
(* Loggers: setup_logger of src/Back/Logging/logging.py and of the two     *)
(* logging.py templates, all on the one registry of the logging module     *)
(***************************************************************************)
MaxCalls == 2

\* logger names: the two of main.py
LoggerNames == {"frontend", "backend"}
\* log_file arguments: the two defaults
LogFiles == {"frontend.log", "backend.log"}
\* level arguments
Levels == {"DEBUG", "INFO", "ERROR"}

\* what logging.getLogger(name) returns for a name not seen before
NewLogger == [level |-> "NOTSET", handlers |-> <<>>]

NoLoggers == [n \in LoggerNames |-> NewLogger]
NoCalls == [n \in LoggerNames |-> <<>>]

\* the body without its `if not logger.handlers`
setup_logger_unguarded(logger, log_file, level) ==
  [level |-> level, handlers |-> Append(logger.handlers, log_file)]

\* lines 14-21: the logger after setup_logger(name, log_file, level); a
\* FileHandler is stood for by its log file
setup_logger(logger, log_file, level) ==
  IF logger.handlers = <<>>
  THEN [level |-> level, handlers |-> Append(logger.handlers, log_file)]
  ELSE logger

(***************************************************************************)
(* State                                                                   *)
(***************************************************************************)
VARIABLES
  pc,            \* where the routine stands: "start", "read", "loop", "run",
                 \* "wait", "skeleton", "returned"
  result,        \* "none" while running, then "True", "False", or "raised"
                 \* when an exception left the routine
  runs,          \* number of the current invocation
  manifest,      \* pyproject.toml on disk
  requirements,  \* requirements.txt on disk
  tree,          \* the skeleton paths on disk: "absent", "dir" or a file's content
  lines,         \* the list readlines() returned
  idx,           \* position of the for loop in lines
  package_spec,  \* the argument of the `uv add` under way
  step,          \* position of Block 5 in Steps
  trace,         \* what this run did outside the skeleton, in order
  manifest0,     \* the manifest when the run started
  tree0,         \* the tree when the run started
  loggers,       \* the logging module's registry: per name, level and handlers
  calls          \* per logger name, the setup_logger calls made for it, in order

vars == <<pc, result, runs, manifest, requirements, tree, lines, idx,
          package_spec, step, trace, manifest0, tree0, loggers, calls>>

Event(ev, i, spec) == [ev |-> ev, idx |-> i, spec |-> spec]

Init ==
  /\ pc = "start"
  /\ result = "none"
  /\ runs = 1
  /\ manifest \in InitialManifests
  /\ requirements \in InitialRequirements
  /\ tree \in InitialTrees
  /\ lines = <<>>
  /\ idx = 0
  /\ package_spec = <<>>
  /\ step = 0
  /\ trace = <<>>
  /\ manifest0 = manifest
  /\ tree0 = tree
  /\ loggers = NoLoggers
  /\ calls = NoCalls

\* the routine ends: `return False`, `return True`, or an exception leaves it
Return(res) ==
  /\ pc' = "returned"
  /\ result' = res

(***************************************************************************)
(* Block 1, lines 96-112                                                   *)
(***************************************************************************)
\* the inner try catching the wrong class
LoadClauses_key_error == <<"KeyError">>

\* the except clause of the inner try (line 100)
LoadClauses == <<"FileNotFoundError">>

ClearManifest ==
  /\ pc = "start"
  /\ LET ld == toml_load(manifest)
         pyproject == IF ld.exc = "none" THEN ld.pyproject ELSE DefaultManifest
     IN  IF ld.exc # "none" /\ ~Caught(LoadClauses, ld.exc)
         THEN /\ Return(Outcome(<<Block1Clauses>>, ld.exc))
              /\ trace' = Append(trace, Event("manifest_load_error", 0, <<>>))
              /\ UNCHANGED manifest
         ELSE IF manifest.kind = "project_not_table"
         THEN \* str has no setdefault
              /\ Return(Outcome(<<Block1Clauses>>, "AttributeError"))
              /\ trace' = Append(trace, Event("manifest_type_error", 0, <<>>))
              /\ UNCHANGED manifest
         ELSE \E w \in {"ok", "denied", "truncated"} :
                CASE w = "ok" ->
                       /\ manifest' = toml_dump(ClearDependencies(pyproject))
                       /\ trace' = Append(trace, Event("manifest_write", 0, <<>>))
                       /\ pc' = "read"
                       /\ UNCHANGED result
                  [] w = "denied" ->
                       \* open(..., 'w') raises, the file is as it was
                       /\ Return(Outcome(<<Block1Clauses>>, "PermissionError"))
                       /\ trace' = Append(trace, Event("manifest_write_error", 0, <<>>))
                       /\ UNCHANGED manifest
                  [] w = "truncated" ->
                       \* open(..., 'w') emptied the file, the write raises
                       /\ Return(Outcome(<<Block1Clauses>>, "OSError"))
                       /\ trace' = Append(trace, Event("manifest_write_error", 0, <<>>))
                       /\ manifest' = ManifestFile("toml", <<>>, FALSE)
  /\ UNCHANGED <<runs, requirements, tree, lines, idx, package_spec, step,
                 manifest0, tree0, loggers, calls>>

(***************************************************************************)
(* Block 2, lines 118-120                                                  *)
(***************************************************************************)
\* a missing requirements file taken for an empty one
ReadRequirements_optional ==
  /\ pc = "read"
  /\ CASE requirements.kind = "absent" ->
            /\ lines' = <<>>
            /\ idx' = 1
            /\ pc' = "loop"
            /\ trace' = Append(trace, Event("requirements_error", 0, <<>>))
            /\ UNCHANGED result
       [] requirements.kind = "unreadable" ->
            /\ Return(Outcome(<<OuterClauses>>, "PermissionError"))
            /\ trace' = Append(trace, Event("requirements_error", 0, <<>>))
            /\ UNCHANGED <<lines, idx>>
       [] OTHER ->
            /\ lines' = requirements.lines
            /\ idx' = 1
            /\ pc' = "loop"
            /\ trace' = Append(trace, Event("requirements_read", 0, <<>>))
            /\ UNCHANGED result
  /\ UNCHANGED <<runs, manifest, requirements, tree, package_spec, step,
                 manifest0, tree0, loggers, calls>>

ReadRequirements ==
  /\ pc = "read"
  /\ CASE requirements.kind = "absent" ->
            /\ Return(Outcome(<<OuterClauses>>, "FileNotFoundError"))
            /\ trace' = Append(trace, Event("requirements_error", 0, <<>>))
            /\ UNCHANGED <<lines, idx>>
       [] requirements.kind = "unreadable" ->
            /\ Return(Outcome(<<OuterClauses>>, "PermissionError"))
            /\ trace' = Append(trace, Event("requirements_error", 0, <<>>))
            /\ UNCHANGED <<lines, idx>>
       [] OTHER ->
            /\ lines' = requirements.lines
            /\ idx' = 1
            /\ pc' = "loop"
            /\ trace' = Append(trace, Event("requirements_read", 0, <<>>))
            /\ UNCHANGED result
  /\ UNCHANGED <<runs, manifest, requirements, tree, package_spec, step,
                 manifest0, tree0, loggers, calls>>

(***************************************************************************)
(* Block 4, lines 132-163                                                  *)
(***************************************************************************)
\* the loop returning False on a line that fails the pattern
NextLine_abort ==
  /\ pc = "loop"
  /\ idx <= Len(lines)
  /\ LET r == ParseLine(lines[idx])
     IN  CASE r.kind = "add" ->
                /\ package_spec' = r.package_spec
                /\ pc' = "run"
                /\ trace' = Append(trace, Event("accept", idx, r.package_spec))
                /\ UNCHANGED <<idx, result>>
           [] r.kind = "invalid" ->
                /\ Return("False")
                /\ trace' = Append(trace, Event("invalid", idx, <<>>))
                /\ UNCHANGED <<idx, package_spec>>
           [] OTHER ->
                /\ idx' = idx + 1
                /\ trace' = Append(trace, Event(r.kind, idx, <<>>))
                /\ UNCHANGED <<pc, package_spec, result>>
  /\ UNCHANGED <<runs, manifest, requirements, tree, lines, step,
                 manifest0, tree0, loggers, calls>>

\* a loop that does not move on from a blank or comment line
NextLine_stuck ==
  /\ pc = "loop"
  /\ idx <= Len(lines)
  /\ LET r == ParseLine(lines[idx])
     IN  CASE r.kind = "add" ->
                /\ package_spec' = r.package_spec
                /\ pc' = "run"
                /\ trace' = Append(trace, Event("accept", idx, r.package_spec))
                /\ UNCHANGED idx
           [] r.kind = "invalid" ->
                /\ idx' = idx + 1
                /\ trace' = Append(trace, Event(r.kind, idx, <<>>))
                /\ UNCHANGED <<pc, package_spec>>
           [] OTHER -> UNCHANGED <<pc, package_spec, idx, trace>>
  /\ UNCHANGED <<result, runs, manifest, requirements, tree, lines, step,
                 manifest0, tree0, loggers, calls>>

\* lines 132-147: the loop takes the next line and parses it
NextLine ==
  /\ pc = "loop"
  /\ idx <= Len(lines)
  /\ LET r == ParseLine(lines[idx])
     IN  IF r.kind = "add"
         THEN /\ package_spec' = r.package_spec
              /\ pc' = "run"
              /\ trace' = Append(trace, Event("accept", idx, r.package_spec))
              /\ UNCHANGED idx
         ELSE /\ idx' = idx + 1
              /\ trace' = Append(trace, Event(r.kind, idx, <<>>))
              /\ UNCHANGED <<pc, package_spec>>
  /\ UNCHANGED <<result, runs, manifest, requirements, tree, lines, step,
                 manifest0, tree0, loggers, calls>>

\* lines 152-157: subprocess.run starts `uv add package_spec`, or raises
\* FileNotFoundError when there is no uv executable
RunUv ==
  /\ pc = "run"
  /\ \E launched \in BOOLEAN :
       IF launched
       THEN /\ pc' = "wait"
            /\ trace' = Append(trace, Event("uv_add", idx, package_spec))
            /\ UNCHANGED result
       ELSE /\ Return(Outcome(<<InstallClauses, OuterClauses>>, "FileNotFoundError"))
            /\ trace' = Append(trace, Event("uv_missing", idx, package_spec))
  /\ UNCHANGED <<runs, manifest, requirements, tree, lines, idx, package_spec,
                 step, manifest0, tree0, loggers, calls>>

\* a failed command reported and the loop carried on
UvExit_continue ==
  /\ pc = "wait"
  /\ \E returncode \in {0, 1} :
       /\ manifest' = IF returncode = 0 THEN uv_add(manifest, package_spec) ELSE manifest
       /\ idx' = idx + 1
       /\ pc' = "loop"
       /\ trace' = Append(trace, Event(IF returncode = 0 THEN "uv_ok" ELSE "uv_failed",
                                       idx, package_spec))
       /\ UNCHANGED result
  /\ UNCHANGED <<runs, requirements, tree, lines, package_spec, step,
                 manifest0, tree0, loggers, calls>>

\* a failed command followed by putting the manifest of before the run back
UvExit_restore ==
  /\ pc = "wait"
  /\ \E returncode \in {0, 1} :
       IF returncode = 0
       THEN /\ manifest' = uv_add(manifest, package_spec)
            /\ idx' = idx + 1
            /\ pc' = "loop"
            /\ trace' = Append(trace, Event("uv_ok", idx, package_spec))
            /\ UNCHANGED result
       ELSE /\ Return(Outcome(<<InstallClauses, OuterClauses>>, "CalledProcessError"))
            /\ trace' = Append(trace, Event("uv_failed", idx, package_spec))
            /\ manifest' = manifest0
            /\ UNCHANGED idx
  /\ UNCHANGED <<runs, requirements, tree, lines, package_spec, step,
                 manifest0, tree0, loggers, calls>>

\* lines 152-161: the command exits; check=True raises CalledProcessError on
\* a non-zero status
UvExit ==
  /\ pc = "wait"
  /\ \E returncode \in {0, 1} :
       IF returncode = 0
       THEN /\ manifest' = uv_add(manifest, package_spec)
            /\ idx' = idx + 1
            /\ pc' = "loop"
            /\ trace' = Append(trace, Event("uv_ok", idx, package_spec))
            /\ UNCHANGED result
       ELSE /\ Return(Outcome(<<InstallClauses, OuterClauses>>, "CalledProcessError"))
            /\ trace' = Append(trace, Event("uv_failed", idx, package_spec))
            /\ UNCHANGED <<manifest, idx>>
  /\ UNCHANGED <<runs, requirements, tree, lines, package_spec, step,
                 manifest0, tree0, loggers, calls>>

\* the loop left one line early
LoopEnd_early ==
  /\ pc = "loop"
  /\ idx >= Len(lines)
  /\ pc' = "skeleton"
  /\ step' = 1
  /\ trace' = Append(trace, Event("all_added", 0, <<>>))
  /\ UNCHANGED <<result, runs, manifest, requirements, tree, lines, idx,
                 package_spec, manifest0, tree0, loggers, calls>>

\* line 163: the loop is exhausted, Block 5 begins
LoopEnd ==
  /\ pc = "loop"
  /\ idx > Len(lines)
  /\ pc' = "skeleton"
  /\ step' = 1
  /\ trace' = Append(trace, Event("all_added", 0, <<>>))
  /\ UNCHANGED <<result, runs, manifest, requirements, tree, lines, idx,
                 package_spec, manifest0, tree0, loggers, calls>>

(***************************************************************************)
(* Block 5, lines 175-497                                                  *)
(***************************************************************************)
\* an error in the skeleton answered by removing what the run had created
SkeletonStep_rollback ==
  /\ pc = "skeleton"
  /\ step <= NSteps
  /\ LET st == Steps[step]
         Advance == /\ step' = step + 1
                    /\ UNCHANGED <<pc, result, trace>>
         Raise(exc) == /\ Return(Outcome(<<SkeletonClauses, OuterClauses>>, exc))
                       /\ trace' = Append(trace, Event("skeleton_error", step, <<>>))
                       /\ tree' = tree0
                       /\ UNCHANGED step
     IN  IF st.op = "makedirs"
         THEN CASE tree[st.path] = "dir" -> Advance /\ UNCHANGED tree
                [] tree[st.path] = "absent" ->
                     \E ok \in BOOLEAN :
                       IF ok THEN Advance /\ tree' = [tree EXCEPT ![st.path] = "dir"]
                       ELSE Raise("PermissionError")
                [] OTHER -> Raise("FileExistsError")
         ELSE IF exists(tree, st.path)
         THEN Advance /\ UNCHANGED tree
         ELSE \E w \in {"ok", "denied", "truncated"} :
                CASE w = "ok" -> Advance /\ tree' = [tree EXCEPT ![st.path] = st.content]
                  [] w = "denied" -> Raise("PermissionError")
                  [] w = "truncated" ->
                       Raise("OSError")
  /\ UNCHANGED <<runs, manifest, requirements, lines, idx, package_spec,
                 manifest0, tree0, loggers, calls>>

\* one file-system call of the skeleton: os.makedirs(path, exist_ok=True),
\* or `if not os.path.exists(path)` with the open and write it guards
SkeletonStep ==
  /\ pc = "skeleton"
  /\ step <= NSteps
  /\ LET st == Steps[step]
         Advance == /\ step' = step + 1
                    /\ UNCHANGED <<pc, result, trace>>
         Raise(exc) == /\ Return(Outcome(<<SkeletonClauses, OuterClauses>>, exc))
                       /\ trace' = Append(trace, Event("skeleton_error", step, <<>>))
                       /\ UNCHANGED step
     IN  IF st.op = "makedirs"
         THEN CASE tree[st.path] = "dir" -> Advance /\ UNCHANGED tree
                [] tree[st.path] = "absent" ->
                     \E ok \in BOOLEAN :
                       IF ok THEN Advance /\ tree' = [tree EXCEPT ![st.path] = "dir"]
                       ELSE Raise("PermissionError") /\ UNCHANGED tree
                [] OTHER -> Raise("FileExistsError") /\ UNCHANGED tree
         ELSE IF exists(tree, st.path)
         THEN Advance /\ UNCHANGED tree
         ELSE \E w \in {"ok", "denied", "truncated"} :
                CASE w = "ok" -> Advance /\ tree' = [tree EXCEPT ![st.path] = st.content]
                  [] w = "denied" -> Raise("PermissionError") /\ UNCHANGED tree
                  [] w = "truncated" ->
                       Raise("OSError") /\ tree' = [tree EXCEPT ![st.path] = "empty"]
  /\ UNCHANGED <<runs, manifest, requirements, lines, idx, package_spec,
                 manifest0, tree0, loggers, calls>>

\* line 493
SkeletonReturn ==
  /\ pc = "skeleton"
  /\ step > NSteps
  /\ Return("True")
  /\ UNCHANGED <<runs, manifest, requirements, tree, lines, idx, package_spec,
                 step, trace, manifest0, tree0, loggers, calls>>

(***************************************************************************)
(* The caller invokes the routine again on the directory a successful run  *)
(* left behind                                                             *)
(***************************************************************************)
StartRun ==
  /\ pc = "returned"
  /\ result = "True"
  /\ runs < MaxRuns
  /\ runs' = runs + 1
  /\ pc' = "start"
  /\ result' = "none"
  /\ lines' = <<>>
  /\ idx' = 0
  /\ package_spec' = <<>>
  /\ step' = 0
  /\ trace' = <<>>
  /\ manifest0' = manifest
  /\ tree0' = tree
  /\ UNCHANGED <<manifest, requirements, tree, loggers, calls>>

Next ==
  \/ ClearManifest
  \/ ReadRequirements
  \/ NextLine
  \/ RunUv
  \/ UvExit
  \/ LoopEnd
  \/ SkeletonStep
  \/ SkeletonReturn
  \/ StartRun

Spec == Init /\ [][Next]_vars

(***************************************************************************)
(* The requirement parser on its own: the routine run on every one-line    *)
(* requirements file over Alphabet, up to the end of the install loop      *)
(***************************************************************************)
RawLines ==
  LET bodies == SeqsUpTo(Alphabet, MaxLineLen)
  IN  bodies \cup {b \o <<LF>> : b \in bodies}

InitParse ==
  /\ pc = "start"
  /\ result = "none"
  /\ runs = 1
  /\ manifest = ManifestFile("absent", <<>>, FALSE)
  /\ requirements \in {RequirementsFile("file", <<raw>>) : raw \in RawLines}
  /\ tree = PrefixTree(0)
  /\ lines = <<>>
  /\ idx = 0
  /\ package_spec = <<>>
  /\ step = 0
  /\ trace = <<>>
  /\ manifest0 = manifest
  /\ tree0 = tree
  /\ loggers = NoLoggers
  /\ calls = NoCalls

NextParse ==
  \/ ClearManifest
  \/ ReadRequirements
  \/ NextLine
  \/ RunUv
  \/ UvExit
  \/ LoopEnd

SpecParse == InitParse /\ [][NextParse]_vars

(***************************************************************************)
(* What a run did, read off its trace                                      *)
(***************************************************************************)
Events == {trace[i] : i \in 1..Len(trace)}
Happened(ev) == \E e \in Events : e.ev = ev
LastEvent == trace[Len(trace)]
LastIs(ev) == trace # <<>> /\ LastEvent.ev = ev

IsUvAdd(e) == e.ev = "uv_add"

\* the arguments of the `uv add` commands started so far, in order
Invocations ==
  LET started == SelectSeq(trace, IsUvAdd)
  IN  [i \in 1..Len(started) |-> started[i].spec]

ManifestFailures ==
  {"manifest_load_error", "manifest_type_error", "manifest_write_error"}
Failures ==
  ManifestFailures \cup {"requirements_error", "uv_missing", "uv_failed"}

\* a raw line that is neither blank nor a comment and whose trimmed text
\* matches the pattern
Accepts(raw) ==
  /\ strip(raw) # <<>>
  /\ Head(strip(raw)) # "#"
  /\ package_pattern_match(strip(raw)).matched

\* a raw line the claims call rejected: blank, a comment, or not matching
\* the name pattern
Rejects(raw) ==
  \/ strip(raw) = <<>>
  \/ Head(strip(raw)) = "#"
  \/ ~package_pattern_match(strip(raw)).matched

\* the two classes worked out once for the lines of the enumerated files
PoolLines == LinePool \cup {ExampleFile[i] : i \in 1..Len(ExampleFile)}
AcceptedLines == {raw \in PoolLines : Accepts(raw)}
RejectedLines == {raw \in PoolLines : Rejects(raw)}

IsAccepted(raw) == IF raw \in PoolLines THEN raw \in AcceptedLines ELSE Accepts(raw)
IsRejected(raw) == IF raw \in PoolLines THEN raw \in RejectedLines ELSE Rejects(raw)

\* the trimmed texts of the accepted lines of a file, in file order
AcceptedTexts(file) ==
  LET acc == SelectSeq(file, IsAccepted)
  IN  [i \in 1..Len(acc) |-> strip(acc[i])]

(***************************************************************************)
(* Claims                                                                  *)
(***************************************************************************)

C2_FailFast ==
  \A i \in 1..Len(trace) :
    trace[i].ev = "uv_failed" =>
      /\ i = Len(trace)
      /\ pc = "returned"
      /\ result = "False"
      /\ Len(Invocations) = Len(AcceptedTexts(SubSeq(lines, 1, trace[i].idx)))

\* the installer failed on the first accepted requirement of a file that
\* holds another accepted requirement after it
C2_Witness ==
  /\ LastIs("uv_failed")
  /\ pc = "returned"
  /\ Len(Invocations) = 1
  /\ \E j \in (LastEvent.idx + 1)..Len(lines) : IsAccepted(lines[j])

\* C3: a failed stage ends the run: after a manifest failure the
\* requirements file is not read and no installer runs; after a missing
\* requirements file no installer runs; after either, or after a failed
\* install, the skeleton is untouched.
C3_ShortCircuit ==
  /\ \A i \in 1..Len(trace) :
       trace[i].ev \in Failures => i = Len(trace) /\ pc = "returned"
  /\ (\E f \in ManifestFailures : Happened(f)) =>
       /\ ~Happened("requirements_read") /\ ~Happened("requirements_error")
       /\ lines = <<>>
       /\ Invocations = <<>>
  /\ Happened("requirements_error") => Invocations = <<>>
  /\ (\E f \in Failures : Happened(f)) => tree = tree0 /\ step = 0

\* a run on an incomplete tree that stopped at the missing requirements file
C3_Witness ==
  /\ LastIs("requirements_error")
  /\ requirements.kind = "absent"
  /\ pc = "returned"
  /\ \E p \in Paths : tree[p] = "absent"

\* C4: a skeleton file that exists when the run reaches the skeleton has
\* the same content for the rest of the run; a run on the tree a successful
\* run left behind changes no path of the skeleton.
C4_ExistingFilesKept ==
  /\ \A p \in FilePaths : tree0[p] # "absent" => tree[p] = tree0[p]
  /\ runs > 1 => tree = tree0

\* the second run has returned True on a tree that holds files edited by
\* hand and files the first run wrote
C4_Witness ==
  /\ runs = 2
  /\ pc = "returned"
  /\ result = "True"
  /\ \E p \in FilePaths : tree[p] = "user_edit"
  /\ \E p \in FilePaths : tree[p] = "logging_template_back"

\* the paths section 3 of the specification lists, written out
DescriptorSubdirFiles(side) ==
  { <<"src", side, "components", "__init__.py">>,
    <<"src", side, "components", "StageOne.py">>,
    <<"src", side, "components", "StageTwo.py">>,
    <<"src", side, "components", "StageThree.py">>,
    <<"src", side, "Logging", "__init__.py">>,
    <<"src", side, "Logging", "logging.py">>,
    <<"src", side, "Exceptions", "__init__.py">>,
    <<"src", side, "Exceptions", "exceptions.py">>,
    <<"src", side, "Constants", "__init__.py">>,
    <<"src", side, "Constants", "constants.py">>,
    <<"src", side, "Utils", "__init__.py">>,
    <<"src", side, "Utils", "utils.py">>,
    <<"src", side, "__init__.py">> }

DescriptorPaths ==
  { <<"configs", "configuration.yml">>, <<"src", "__init__.py">> }
  \cup DescriptorSubdirFiles("Front") \cup DescriptorSubdirFiles("Back")

\* C5: when a run has returned True every path of the skeleton descriptor
\* exists on disk.
C5_SkeletonComplete ==
  (pc = "returned" /\ result = "True") =>
     \A p \in DescriptorPaths : p \in DOMAIN tree /\ tree[p] # "absent"

\* a run that started on the empty tree has returned True
C5_Witness ==
  /\ pc = "returned"
  /\ result = "True"
  /\ runs = 1
  /\ \A p \in Paths : tree0[p] = "absent"

\* C6: the requirement handed to the installer is the trimmed text of its
\* line, character for character.
C6_SpecIsTrimmedLine ==
  /\ \A e \in Events :
       e.ev \in {"accept", "uv_add"} => e.spec = strip(lines[e.idx])
  /\ pc \in {"run", "wait"} => package_spec = strip(lines[idx])
  /\ \A i \in 1..Len(lines) :
       (IsAccepted(lines[i]) /\ (idx > i \/ (pc \in {"run", "wait"} /\ idx = i))) =>
          \E e \in Events : e.ev = "accept" /\ e.idx = i /\ e.spec = strip(lines[i])

\* the installer was started for a line with a version constraint and
\* surrounding whitespace
C6_Witness ==
  \E e \in Events :
    /\ e.ev = "uv_add"
    /\ e.spec = <<"a", "=", "1">>
    /\ lines[e.idx] # e.spec

\* C7: a blank, comment or invalid line starts no installer and does not end
\* the run: the loop goes on to the next line, every accepted line is still
\* installed, and a run returns False only after a failure event.
C7_RejectedLinesSkipped ==
  /\ \A e \in Events :
       e.ev \in {"accept", "uv_add", "uv_missing", "uv_ok", "uv_failed"} =>
          ~IsRejected(lines[e.idx])
  /\ \A i \in 1..Len(trace) :
       trace[i].ev \in {"skip", "invalid"} =>
          /\ IsRejected(lines[trace[i].idx])
          /\ i = Len(trace) =>
               pc = "loop" /\ result = "none" /\ idx = trace[i].idx + 1
  /\ \A i \in 1..Len(lines) :
       (IsRejected(lines[i]) /\ idx > i) =>
          \E e \in Events : e.ev \in {"skip", "invalid"} /\ e.idx = i
  /\ result = "False" => (Happened("all_added") \/ LastEvent.ev \in Failures)
  /\ Happened("all_added") =>
       \A j \in 1..Len(lines) :
         IsAccepted(lines[j]) => \E e \in Events : e.ev = "uv_ok" /\ e.idx = j

\* a line holding only a version constraint was skipped and the accepted
\* line after it was installed
C7_Witness ==
  /\ Happened("all_added")
  /\ Len(lines) = 2
  /\ strip(lines[1]) = onlyversion
  /\ \E e \in Events : e.ev = "invalid" /\ e.idx = 1
  /\ \E e \in Events : e.ev = "uv_ok" /\ e.idx = 2

\* s is a prefix of t
IsPrefix(s, t) == Len(s) <= Len(t) /\ s = SubSeq(t, 1, Len(s))

\* C8: the `uv add` commands of a run are the accepted lines of the file in
\* file order, one command per line: always a prefix of them, and all of
\* them once the loop has ended; for the file numpy, # comment, blank,
\* pandas==1.2.3 they are numpy then pandas==1.2.3.
C8_InvocationsAreAcceptedLines ==
  /\ pc # "start" /\ pc # "read" /\ requirements.kind = "file" =>
       IsPrefix(Invocations, AcceptedTexts(requirements.lines))
  /\ Happened("all_added") =>
       /\ Invocations = AcceptedTexts(requirements.lines)
       /\ requirements.lines = ExampleFile => Invocations = <<numpy, pandas123>>

\* the loop has ended on the example file
C8_Witness ==
  /\ Happened("all_added")
  /\ requirements.lines = ExampleFile
  /\ Len(Invocations) = 2

\* the manifest line 101 synthesizes, as persisted
PersistedDefault ==
  [kind |-> "toml",
   doc |-> [project |-> [name |-> "my-project", version |-> "0.1.0",
                         dependencies |-> <<>>]],
   comments |-> FALSE]

C10_DependenciesCleared ==
  (Happened("manifest_write") /\ ~Happened("uv_ok")) =>
     /\ manifest.kind = "toml"
     /\ "project" \in DOMAIN manifest.doc
     /\ "dependencies" \in DOMAIN manifest.doc.project
     /\ manifest.doc.project.dependencies = <<>>

\* the phase has just cleared a dependency list that was not empty
C10_Witness ==
  /\ LastIs("manifest_write")
  /\ manifest0.kind = "toml"
  /\ "project" \in DOMAIN manifest0.doc
  /\ "dependencies" \in DOMAIN manifest0.doc.project
  /\ manifest0.doc.project.dependencies # <<>>

LineEvents == {"skip", "invalid", "accept", "uv_add", "uv_missing", "uv_ok", "uv_failed"}
ParseEvents == {"skip", "invalid", "accept"}

\* line i of the list has been parsed
Parsed(i) == \E e \in Events : e.ev \in ParseEvents /\ e.idx = i

\* C11 as stated: the stages follow one another, each done for its whole
\* input before the next starts; when the first installer command is
\* started every line of the list has been parsed.
C11_Original ==
  Happened("uv_add") => \A i \in 1..Len(lines) : Parsed(i)

\* C11 as amended: the manifest is cleared first, the requirements file is
\* read second, the skeleton is touched only after the loop over the lines
\* has ended; inside the loop parsing and installing alternate line by
\* line: a line is parsed right before its own installer command, and no
\* later line is parsed before that command has exited with status zero.
C11_StagesInOrder ==
  /\ \A i \in 1..Len(trace) :
       /\ (trace[i].ev \in ManifestFailures \cup {"manifest_write"}) <=> i = 1
       /\ (trace[i].ev \in {"requirements_read", "requirements_error"}) <=> i = 2
       /\ trace[i].ev \in LineEvents =>
            /\ i > 2
            /\ \A j \in 1..(i - 1) : trace[j].idx <= trace[i].idx
       /\ trace[i].ev = "uv_add" =>
            trace[i - 1].ev = "accept" /\ trace[i - 1].idx = trace[i].idx
       /\ (trace[i].ev \in ParseEvents /\ trace[i - 1].ev \in LineEvents) =>
            /\ trace[i - 1].ev \in {"skip", "invalid", "uv_ok"}
            /\ trace[i].idx = trace[i - 1].idx + 1
       /\ trace[i].ev = "all_added" =>
            /\ \A j \in 1..Len(lines) : Parsed(j)
            /\ \A j \in (i + 1)..Len(trace) : trace[j].ev = "skeleton_error"
  /\ (tree # tree0 \/ step > 0) => Happened("all_added")

\* the second line of the list is parsed after the installer command of
\* the first has exited
C11_Witness ==
  /\ Len(trace) >= 6
  /\ trace[3].ev = "accept" /\ trace[4].ev = "uv_add" /\ trace[5].ev = "uv_ok"
  /\ trace[6].ev \in ParseEvents /\ trace[6].idx = 2

\* the requirement lines for which subprocess.run was called
Called == {e.idx : e \in {f \in Events : f.ev = "accept"}}
\* the requirement lines whose command exited with status zero
ExitedZero == {e.idx : e \in {f \in Events : f.ev = "uv_ok"}}

C14_NoRollback ==
  \A i \in 1..Len(trace) :
    trace[i].ev = "skeleton_error" =>
      LET k == trace[i].idx
      IN  /\ i = Len(trace)
          /\ pc = "returned" /\ result = "False"
          /\ step = k
          /\ \A j \in (k + 1)..NSteps : tree[Steps[j].path] = tree0[Steps[j].path]
          /\ \A j \in 1..(k - 1) :
               tree[Steps[j].path] =
                 IF tree0[Steps[j].path] = "absent" THEN Steps[j].content
                 ELSE tree0[Steps[j].path]
          /\ tree[Steps[k].path] \in {tree0[Steps[k].path], "empty"}

\* on a tree that was empty the skeleton failed inside src/Back, with
\* src/Front complete and still there
C14_Witness ==
  /\ LastIs("skeleton_error")
  /\ LastEvent.idx > FrontDone + 2
  /\ \A p \in Paths : tree0[p] = "absent"
  /\ tree[<<"src", "Front", "Utils", "utils.py">>] = "empty"
  /\ tree[<<"src", "Back", "Utils", "utils.py">>] = "absent"

\* the requirements whose `uv add` exited with status zero, in order
IsUvOk(e) == e.ev = "uv_ok"
Installed ==
  LET ok == SelectSeq(trace, IsUvOk)
  IN  [i \in 1..Len(ok) |-> ok[i].spec]

IsManifestWrite(e) == e.ev = "manifest_write"

InitLive ==
  /\ Init
  /\ manifest.kind \in {"absent", "malformed"}
  /\ tree = PrefixTree(FrontDone)

\* one invocation of the routine
NextLive ==
  \/ ClearManifest
  \/ ReadRequirements
  \/ NextLine
  \/ RunUv
  \/ UvExit
  \/ LoopEnd
  \/ SkeletonStep
  \/ SkeletonReturn

SpecLive ==
  /\ InitLive
  /\ [][NextLive]_vars
  /\ WF_vars(ClearManifest)
  /\ WF_vars(ReadRequirements)
  /\ WF_vars(NextLine)
  /\ WF_vars(RunUv)
  /\ WF_vars(LoopEnd)
  /\ WF_vars(SkeletonStep)
  /\ WF_vars(SkeletonReturn)

\* C13: unless some `uv add` never exits, and the run waits for it for
\* ever, every run that has started ends, returning True or False.
C13_Terminates ==
  \/ <>[](pc = "wait")
  \/ [](pc # "returned" => <>(pc = "returned" /\ result \in {"True", "False"}))

\* a run has ended after waiting for two installer commands
C13_Witness ==
  /\ pc = "returned"
  /\ Len(Installed) = 2
  /\ result \in {"True", "False"}

(***************************************************************************)
(* setup_logger called any number of times, for any name, file and level   *)
(***************************************************************************)
InitLogger ==
  /\ pc = "returned"
  /\ result = "True"
  /\ runs = MaxRuns
  /\ manifest = toml_dump(DefaultManifest)
  /\ requirements = RequirementsFile("file", <<>>)
  /\ tree = PrefixTree(NSteps)
  /\ lines = <<>>
  /\ idx = 1
  /\ package_spec = <<>>
  /\ step = NSteps + 1
  /\ trace = <<>>
  /\ manifest0 = manifest
  /\ tree0 = tree
  /\ loggers = NoLoggers
  /\ calls = NoCalls

\* setup_logger(name, log_file, level), lines 3-21 of logging.py
SetupLogger ==
  \E name \in LoggerNames, log_file \in LogFiles, level \in Levels :
    /\ Len(calls[name]) < MaxCalls
    /\ loggers' = [loggers EXCEPT ![name] = setup_logger(@, log_file, level)]
    /\ calls' = [calls EXCEPT ![name] = Append(@, [log_file |-> log_file, level |-> level])]
    /\ UNCHANGED <<pc, result, runs, manifest, requirements, tree, lines, idx,
                   package_spec, step, trace, manifest0, tree0>>

NextLogger == SetupLogger

SpecLogger == InitLogger /\ [][NextLogger]_vars

\* C16: a logger never has more than one handler; a name setup_logger was
\* not called for has none; a name it was called for has the level and the
\* log file of the first call, whatever the later calls asked for.
C16_OneHandlerPerName ==
  \A n \in LoggerNames :
    /\ Len(loggers[n].handlers) <= 1
    /\ calls[n] = <<>> => loggers[n] = NewLogger
    /\ calls[n] # <<>> =>
         /\ loggers[n].handlers = <<calls[n][1].log_file>>
         /\ loggers[n].level = calls[n][1].level

\* a logger was set up a second time with another file and another level
C16_Witness ==
  \E n \in LoggerNames :
    /\ Len(calls[n]) >= 2
    /\ calls[n][2].log_file # calls[n][1].log_file
    /\ calls[n][2].level # calls[n][1].level
    /\ Len(loggers[n].handlers) = 1

====
